---- MODULE Spec2Model ----
\* De Bruijn graph assembler (debruijn.py): k-mer counting, graph
\* construction, bubble and tip simplification, contig extraction.
EXTENDS Integers, Sequences, FiniteSets, TLC

VARIABLES reads, kmer_size, kmer_dict, graph, contigs, pc, op, hist, g_in,
          idx, it_used, nodes_to_remove, cand, best_path, err, ret

vars == <<reads, kmer_size, kmer_dict, graph, contigs, pc, op, hist, g_in,
          idx, it_used, nodes_to_remove, cand, best_path, err, ret>>

\* ---------------------------------------------------------------- bounds
\* total number of bases over all reads of one input
MaxBases == 4
\* k-mer sizes tried: the BelowTwo sizes under 2, and 2..MaxK (the program
\* accepts any int)
BelowTwo == 3
MaxK == 3
\* edge weights of the input graphs of the simplification functions
MaxWeight == 2
\* number of successive calls made on one graph
MaxCalls == 2

Alphabet == {"A", "C", "G", "T"}

\* ------------------------------------------------------- python helpers
Max(a, b) == IF a > b THEN a ELSE b
Min(a, b) == IF a < b THEN a ELSE b

\* s[i:j] of Python for a sequence s (0-based, negative indices wrap,
\* out-of-range indices clamp)
PyIndex(n, i) == IF i < 0 THEN Max(0, n + i) ELSE Min(n, i)
PySlice(s, i, j) == SubSeq(s, PyIndex(Len(s), i) + 1, PyIndex(Len(s), j))

InSeq(x, s) == \E i \in 1..Len(s) : s[i] = x
SeqSet(s) == {s[i] : i \in 1..Len(s)}

RECURSIVE SumSeq(_)
SumSeq(s) == IF s = <<>> THEN 0 ELSE s[1] + SumSeq(Tail(s))

RECURSIVE Flatten(_)
Flatten(ss) == IF ss = <<>> THEN <<>> ELSE ss[1] \o Flatten(Tail(ss))

\* ------------------------------------------------------------ DiGraph
\* A networkx DiGraph: node is the insertion-ordered node dict, edge the
\* insertion-ordered list of <<u, v, weight>>; successor and predecessor
\* orders are the insertion orders of the edges.
EmptyGraph == [node |-> <<>>, edge |-> <<>>]

NodeSet(g) == SeqSet(g.node)
HasEdge(g, u, v) == \E i \in 1..Len(g.edge) : g.edge[i][1] = u /\ g.edge[i][2] = v
EdgeWeight(g, u, v) ==
    LET i == CHOOSE j \in 1..Len(g.edge) : g.edge[j][1] = u /\ g.edge[j][2] = v
    IN g.edge[i][3]

successors(g, n) ==
    LET es == SelectSeq(g.edge, LAMBDA e : e[1] = n)
    IN [i \in 1..Len(es) |-> es[i][2]]
predecessors(g, n) ==
    LET es == SelectSeq(g.edge, LAMBDA e : e[2] = n)
    IN [i \in 1..Len(es) |-> es[i][1]]

add_edge(g, u, v, w) ==
    LET n1 == IF InSeq(u, g.node) THEN g.node ELSE Append(g.node, u)
        n2 == IF InSeq(v, n1) THEN n1 ELSE Append(n1, v)
    IN [node |-> n2,
        edge |-> IF HasEdge(g, u, v)
                 THEN [i \in 1..Len(g.edge) |->
                         IF g.edge[i][1] = u /\ g.edge[i][2] = v
                         THEN <<u, v, w>> ELSE g.edge[i]]
                 ELSE Append(g.edge, <<u, v, w>>)]

remove_nodes_from(g, S) ==
    [node |-> SelectSeq(g.node, LAMBDA n : n \notin S),
     edge |-> SelectSeq(g.edge, LAMBDA e : e[1] \notin S /\ e[2] \notin S)]

\* -------------------------------------------------------- KmerIndexer
\* cut_kmer: for i in range(len(read) - kmer_size + 1): read[i:i+kmer_size]
cut_kmer_short(read, k) ==
    [i \in 1..Max(0, Len(read) - k) |-> PySlice(read, i - 1, i - 1 + k)]
cut_kmer(read, k) ==
    [i \in 1..Max(0, Len(read) - k + 1) |-> PySlice(read, i - 1, i - 1 + k)]

\* kmer_dict is the insertion-ordered dict, a sequence of <<kmer, count>>
DictAdd(d, kmer) ==
    IF \E i \in 1..Len(d) : d[i][1] = kmer
    THEN [i \in 1..Len(d) |-> IF d[i][1] = kmer THEN <<kmer, d[i][2] + 1>> ELSE d[i]]
    ELSE Append(d, <<kmer, 1>>)

RECURSIVE DictAddAll(_, _)
DictAddAll(d, kmers) ==
    IF kmers = <<>> THEN d ELSE DictAddAll(DictAdd(d, kmers[1]), Tail(kmers))

build_kmer_dict(rs, k) ==
    DictAddAll(<<>>, Flatten([r \in 1..Len(rs) |-> cut_kmer(rs[r], k)]))

\* -------------------------------------------------------- GraphBuilder
RECURSIVE BuildFrom(_, _)
BuildFrom(g, d) ==
    IF d = <<>> THEN g
    ELSE LET kmer == d[1][1]
             prefix == PySlice(kmer, 0, -1)
             suffix == PySlice(kmer, 1, Len(kmer))
         IN BuildFrom(add_edge(g, prefix, suffix, d[1][2]), Tail(d))

build_graph(d) == BuildFrom(EmptyGraph, d)

\* ----------------------------------------------------- PathEnumerator
in_degree(g, n) == Len(predecessors(g, n))
out_degree(g, n) == Len(successors(g, n))

get_starting_nodes(g) == SelectSeq(g.node, LAMBDA n : in_degree(g, n) = 0)
get_sink_nodes(g) == SelectSeq(g.node, LAMBDA n : out_degree(g, n) = 0)

\* nodes reachable from the nodes of S (S included)
RECURSIVE Reach(_, _)
Reach(g, S) ==
    LET T == S \cup {e[2] : e \in {x \in SeqSet(g.edge) : x[1] \in S}}
    IN IF T = S THEN S ELSE Reach(g, T)

has_path(g, s, t) == t \in Reach(g, {s})

\* networkx all_simple_paths: depth-first over the successor order, a path
\* is yielded when the target is met and is not extended through it
RECURSIVE SimplePathsFrom(_, _, _), SimplePathsOver(_, _, _, _)
SimplePathsFrom(g, visited, t) ==
    SimplePathsOver(g, visited, t, successors(g, visited[Len(visited)]))
SimplePathsOver(g, visited, t, children) ==
    IF children = <<>> THEN <<>>
    ELSE LET child == children[1]
             here == IF InSeq(child, visited) THEN <<>>
                     ELSE IF child = t THEN <<Append(visited, child)>>
                     ELSE SimplePathsFrom(g, Append(visited, child), t)
         IN here \o SimplePathsOver(g, visited, t, Tail(children))

\* (no caller asks for the paths from a node to itself)
all_simple_paths(g, s, t) ==
    IF s = t THEN <<>> ELSE SimplePathsFrom(g, <<s>>, t)

\* ----------------------------------------------------- ContigExtractor
\* contig = path[0]; for node in path[1:]: contig += node[-1]
ContigOfFirst(path) ==
    path[1] \o [i \in 1..(Len(path) - 1) |-> path[i + 1][1]]
ContigOf(path) ==
    path[1] \o [i \in 1..(Len(path) - 1) |-> path[i + 1][Len(path[i + 1])]]

get_contigs(g, starting_nodes, ending_nodes) ==
    Flatten([s \in 1..Len(starting_nodes) |->
      Flatten([e \in 1..Len(ending_nodes) |->
        IF has_path(g, starting_nodes[s], ending_nodes[e])
        THEN LET paths == all_simple_paths(g, starting_nodes[s], ending_nodes[e])
             IN [p \in 1..Len(paths) |->
                   <<ContigOf(paths[p]), Len(ContigOf(paths[p]))>>]
        ELSE <<>>])])

\* statistics.mean over the edges of graph.subgraph(path): the exact
\* rational sum / n, kept as the pair
path_average_weight(g, path) ==
    LET es == SelectSeq(g.edge, LAMBDA e : e[1] \in SeqSet(path) /\ e[2] \in SeqSet(path))
    IN [sum |-> SumSeq([i \in 1..Len(es) |-> es[i][3]]), n |-> Len(es)]

AvgLess(a, b) == a.sum * b.n < b.sum * a.n
AvgEq(a, b) == a.sum * b.n = b.sum * a.n

\* path[1:-1]
Interior(path) == PySlice(path, 1, -1)

\* (weight, length) tuples compare lexicographically
KeyGt(a, b) == AvgLess(b.avg, a.avg) \/ (AvgEq(a.avg, b.avg) /\ a.len > b.len)
WeightGt(a, b) == AvgLess(b.avg, a.avg)

\* index of the first element of keys that no element exceeds, as Python's
\* max() and a "replace when strictly better" loop both find it: by
\* (weight, length), and by weight alone
FirstMax(keys) ==
    CHOOSE i \in 1..Len(keys) :
        /\ \A j \in 1..Len(keys) : ~KeyGt(keys[j], keys[i])
        /\ \A j \in 1..(i - 1) : KeyGt(keys[i], keys[j])
FirstMaxWeight(keys) ==
    CHOOSE i \in 1..Len(keys) :
        /\ \A j \in 1..Len(keys) : ~WeightGt(keys[j], keys[i])
        /\ \A j \in 1..(i - 1) : WeightGt(keys[i], keys[j])

Keys(g, paths) ==
    [i \in 1..Len(paths) |-> [avg |-> path_average_weight(g, paths[i]), len |-> Len(paths[i])]]

Candidates(g, paths) ==
    [i \in 1..Len(paths) |-> [path |-> paths[i], avg |-> path_average_weight(g, paths[i])]]

\* ------------------------------------------------------ remove_paths
\* graph.remove_node raises NetworkXError for a node that is not in the graph
RECURSIVE RemoveEach(_, _)
RemoveEach(g, nodes) ==
    IF nodes = <<>> THEN [g |-> g, err |-> "none"]
    ELSE IF nodes[1] \notin NodeSet(g) THEN [g |-> g, err |-> "NetworkXError"]
    ELSE RemoveEach(remove_nodes_from(g, {nodes[1]}), Tail(nodes))

remove_paths(g, path_list, delete_entry_node, delete_sink_node) ==
    RemoveEach(g, Flatten([i \in 1..Len(path_list) |->
        IF Len(path_list[i]) < 2 THEN <<>>
        ELSE PySlice(path_list[i],
                     IF delete_entry_node THEN 0 ELSE 1,
                     IF delete_sink_node THEN Len(path_list[i])
                     ELSE Len(path_list[i]) - 1)]))

select_best_path(g, path_list, path_length, weight_avg_list, delete_entry_node, delete_sink_node) ==
    IF path_list = <<>> THEN [g |-> g, err |-> "ValueError"]
    ELSE LET keys == [i \in 1..Len(path_list) |->
                        [avg |-> weight_avg_list[i], len |-> path_length[i]]]
             best_path_index == FirstMax(keys)
             paths_to_remove ==
                 SubSeq(path_list, 1, best_path_index - 1)
                 \o SubSeq(path_list, best_path_index + 1, Len(path_list))
         IN remove_paths(g, paths_to_remove, delete_entry_node, delete_sink_node)

\* ------------------------------------------------------ BubbleResolver
solve_bubble(g, ancestor_node, descendant_node) ==
    IF ancestor_node \notin NodeSet(g) \/ descendant_node \notin NodeSet(g)
    THEN [g |-> g, err |-> "NodeNotFound"]
    ELSE LET paths == all_simple_paths(g, ancestor_node, descendant_node)
         IN IF Len(paths) <= 1 THEN [g |-> g, err |-> "none"]
            ELSE LET best == FirstMax(Keys(g, paths))
                 IN [g |-> remove_nodes_from(g,
                              UNION {SeqSet(Interior(paths[i])) :
                                        i \in (1..Len(paths)) \ {best}}),
                     err |-> "none"]

\* for predecessor in predecessors: if predecessor != lca: solve_bubble(...)
RECURSIVE SolveEach(_, _, _, _)
SolveEach(g, preds, lca, node) ==
    IF preds = <<>> THEN [g |-> g, err |-> "none"]
    ELSE IF preds[1] = lca THEN SolveEach(g, Tail(preds), lca, node)
    ELSE LET r == solve_bubble(g, preds[1], node)
         IN IF r.err # "none" THEN r ELSE SolveEach(r.g, Tail(preds), lca, node)

IsDAG(g) == \A i \in 1..Len(g.edge) : g.edge[i][1] \notin Reach(g, {g.edge[i][2]})

\* the node and its ancestors
AncestorsAndSelf(g, n) == {m \in NodeSet(g) : n \in Reach(g, {m})}

\* networkx lowest_common_ancestor(G, node1, node2, default=None) called as
\* lowest_common_ancestor(graph, *predecessors): the outcomes it can have.
\* Which of several lowest common ancestors is returned depends on a set
\* iteration order, so every one of them is an outcome.
LcaOutcomes(g, preds) ==
    IF Len(preds) > 3
    THEN {[err |-> "TypeError", isNone |-> TRUE, node |-> preds[1]]}
    ELSE IF ~IsDAG(g)
    THEN {[err |-> "NetworkXError", isNone |-> TRUE, node |-> preds[1]]}
    ELSE LET common == AncestorsAndSelf(g, preds[1]) \cap AncestorsAndSelf(g, preds[2])
             lowest == {a \in common : SeqSet(successors(g, a)) \cap common = {}}
         IN IF common = {}
            THEN {[err |-> "none", isNone |-> Len(preds) < 3, node |-> preds[Len(preds)]]}
            ELSE {[err |-> "none", isNone |-> FALSE, node |-> a] : a \in lowest}

\* the body of the loop of simplify_bubbles for a node with more than one
\* predecessor, once lca is known and is not None
BubbleBody(g, rm, node, preds, lca) ==
    LET r == SolveEach(g, preds, lca, node)
        none == [g |-> r.g, rm |-> rm, err |-> r.err, cand |-> <<>>, best |-> <<>>]
    IN IF r.err # "none" THEN none
       ELSE IF lca \notin NodeSet(r.g) \/ node \notin NodeSet(r.g)
       THEN [none EXCEPT !.err = "NodeNotFound"]
       ELSE LET paths == all_simple_paths(r.g, lca, node)
            IN IF paths = <<>> THEN none
               ELSE LET best == FirstMaxWeight(Keys(r.g, paths))
                    IN [g |-> r.g,
                        rm |-> rm \o Flatten([i \in 1..Len(paths) |->
                                   IF i = best THEN <<>> ELSE Interior(paths[i])]),
                        err |-> "none",
                        cand |-> Candidates(r.g, paths),
                        best |-> paths[best]]

\* ---------------------------------------------------------- TipTrimmer
\* the paths solve_entry_tips enumerates for one starting node
EntryTipPaths(g, node) ==
    LET succs == successors(g, node)
    IN IF Len(succs) # 1 THEN <<>>
       ELSE IF Len(predecessors(g, succs[1])) <= 1 THEN <<>>
       ELSE all_simple_paths(g, node, succs[1])

\* the nodes solve_entry_tips marks for one starting node
EntryTipMarks(g, node) ==
    LET paths == EntryTipPaths(g, node)
    IN IF paths = <<>> THEN <<>>
       ELSE LET best == FirstMaxWeight(Keys(g, paths))
            IN Flatten([i \in 1..Len(paths) |->
                   IF i = best THEN <<>> ELSE Interior(paths[i])])

solve_entry_tips(g, starting_nodes) ==
    remove_nodes_from(g,
        SeqSet(Flatten([i \in 1..Len(starting_nodes) |->
                           EntryTipMarks(g, starting_nodes[i])])))

\* ------------------------------------------------ assembly pipeline
\* every list of non-empty reads whose concatenation is s
RECURSIVE Splits(_)
Splits(s) ==
    IF s = <<>> THEN {<<>>}
    ELSE UNION {{<<SubSeq(s, 1, n)>> \o rest :
                    rest \in Splits(SubSeq(s, n + 1, Len(s)))} : n \in 1..Len(s)}

ReadLists == UNION {Splits(s) : s \in UNION {[1..n -> Alphabet] : n \in 0..MaxBases}}

NoRet == [isNone |-> FALSE, value |-> <<>>]

IdleSimp ==
    /\ op = "none" /\ hist = <<>> /\ g_in = EmptyGraph /\ idx = 0 /\ it_used = 0
    /\ nodes_to_remove = <<>> /\ cand = <<>> /\ best_path = <<>>
    /\ err = "none" /\ ret = NoRet

InitAsm ==
    /\ reads \in ReadLists
    /\ kmer_size \in (2 - BelowTwo)..MaxK
    /\ kmer_dict = <<>>
    /\ graph = EmptyGraph
    /\ contigs = <<>>
    /\ pc = "start"
    /\ IdleSimp

simpVars == <<op, hist, g_in, idx, it_used, nodes_to_remove, cand, best_path, err, ret>>

BuildKmerDict ==
    /\ pc = "start"
    /\ kmer_dict' = build_kmer_dict(reads, kmer_size)
    /\ pc' = "kmers"
    /\ UNCHANGED <<reads, kmer_size, graph, contigs, simpVars>>

BuildGraph ==
    /\ pc = "kmers"
    /\ graph' = build_graph(kmer_dict)
    /\ pc' = "graph"
    /\ UNCHANGED <<reads, kmer_size, kmer_dict, contigs, simpVars>>

GetContigs ==
    /\ pc = "graph"
    /\ contigs' = get_contigs(graph, get_starting_nodes(graph), get_sink_nodes(graph))
    /\ pc' = "contigs"
    /\ UNCHANGED <<reads, kmer_size, kmer_dict, graph, simpVars>>

NextAsm == BuildKmerDict \/ BuildGraph \/ GetContigs

SpecAsm == InitAsm /\ [][NextAsm]_vars

\* ------------------------------------------------ simplification calls
\* Edge orders of the input graphs: a bubble closed by a back edge and
\* crossed by a chord, a bubble with branches of unequal length, a
\* convergence of three branches, two bubbles sharing a branch, and entry
\* and exit tips.
Shapes ==
    { << <<1, 2>>, <<1, 3>>, <<1, 4>>, <<2, 4>>, <<3, 4>>, <<4, 1>> >>,
      << <<1, 2>>, <<1, 3>>, <<2, 5>>, <<3, 4>>, <<4, 5>> >>,
      << <<1, 3>>, <<1, 4>>, <<2, 4>>, <<3, 4>> >>,
      << <<1, 3>>, <<1, 4>>, <<3, 2>>, <<4, 2>>, <<5, 2>>, <<5, 3>> >>,
      << <<1, 3>>, <<2, 3>>, <<3, 4>>, <<3, 5>> >> }

\* the sub-lists of a list, order kept
RECURSIVE SubLists(_)
SubLists(s) ==
    IF s = <<>> THEN {<<>>}
    ELSE LET rest == SubLists(Tail(s))
         IN rest \cup {<<s[1]>> \o r : r \in rest}

\* DiGraph.add_weighted_edges_from
RECURSIVE AddWeighted(_, _, _)
AddWeighted(g, pairs, w) ==
    IF pairs = <<>> THEN g
    ELSE AddWeighted(add_edge(g, pairs[1][1], pairs[1][2], w[Len(w) - Len(pairs) + 1]),
                     Tail(pairs), w)

InputGraphs ==
    UNION {{AddWeighted(EmptyGraph, pairs, w) : w \in [1..Len(pairs) -> 1..MaxWeight]} :
              pairs \in UNION {SubLists(sh) : sh \in Shapes}}

InitSimp ==
    /\ graph \in InputGraphs
    /\ reads = <<>> /\ kmer_size = MaxK /\ kmer_dict = <<>> /\ contigs = <<>>
    /\ pc = "idle"
    /\ IdleSimp

asmVars == <<reads, kmer_size, kmer_dict, contigs>>

CallSimplifyBubbles ==
    /\ pc = "idle" /\ Len(hist) < MaxCalls
    /\ op' = "simplify_bubbles"
    /\ pc' = "loop"
    /\ g_in' = graph
    /\ idx' = 1
    /\ it_used' = Len(graph.node)
    /\ nodes_to_remove' = <<>>
    /\ cand' = <<>> /\ best_path' = <<>>
    /\ UNCHANGED <<graph, hist, err, ret, asmVars>>

\* one iteration of "for node in graph.nodes()"
BubbleVisit ==
    /\ pc = "loop" /\ Len(graph.node) = it_used /\ idx <= Len(graph.node)
    /\ LET node == graph.node[idx]
           preds == predecessors(graph, node)
       IN IF Len(preds) <= 1
          THEN /\ idx' = idx + 1
               /\ UNCHANGED <<graph, pc, nodes_to_remove, cand, best_path, err>>
          ELSE \E o \in LcaOutcomes(graph, preds) :
                 IF o.err # "none"
                 THEN /\ pc' = "raised" /\ err' = o.err
                      /\ UNCHANGED <<graph, idx, nodes_to_remove, cand, best_path>>
                 ELSE IF o.isNone
                 THEN /\ idx' = idx + 1
                      /\ UNCHANGED <<graph, pc, nodes_to_remove, cand, best_path, err>>
                 ELSE LET b == BubbleBody(graph, nodes_to_remove, node, preds, o.node)
                      IN /\ graph' = b.g
                         /\ nodes_to_remove' = b.rm
                         /\ cand' = b.cand /\ best_path' = b.best
                         /\ err' = b.err
                         /\ pc' = IF b.err # "none" THEN "raised" ELSE "loop"
                         /\ idx' = IF b.err # "none" THEN idx ELSE idx + 1
    /\ UNCHANGED <<op, hist, g_in, it_used, ret, asmVars>>

\* the node dict changed size under its iterator
BubbleRaise ==
    /\ pc = "loop" /\ Len(graph.node) # it_used
    /\ pc' = "raised" /\ err' = "RuntimeError"
    /\ UNCHANGED <<graph, op, hist, g_in, idx, it_used, nodes_to_remove, cand,
                   best_path, ret, asmVars>>

\* graph.remove_nodes_from(set(nodes_to_remove)); return graph
BubbleReturn ==
    /\ pc = "loop" /\ Len(graph.node) = it_used /\ idx > Len(graph.node)
    /\ graph' = remove_nodes_from(graph, SeqSet(nodes_to_remove))
    /\ ret' = [isNone |-> FALSE, value |-> graph']
    /\ hist' = Append(hist, op)
    /\ pc' = "idle"
    /\ UNCHANGED <<op, g_in, idx, it_used, nodes_to_remove, cand, best_path, err, asmVars>>

CallSolveEntryTips ==
    /\ pc = "idle" /\ Len(hist) < MaxCalls
    /\ op' = "solve_entry_tips"
    /\ g_in' = graph
    /\ graph' = solve_entry_tips(graph, get_starting_nodes(graph))
    /\ ret' = [isNone |-> FALSE, value |-> graph']
    /\ hist' = Append(hist, "solve_entry_tips")
    /\ LET tips == SelectSeq(get_starting_nodes(graph),
                             LAMBDA n : EntryTipPaths(graph, n) # <<>>)
       IN IF tips = <<>>
          THEN cand' = <<>> /\ best_path' = <<>>
          ELSE LET paths == EntryTipPaths(graph, tips[Len(tips)])
               IN /\ cand' = Candidates(graph, paths)
                  /\ best_path' = paths[FirstMaxWeight(Keys(graph, paths))]
    /\ UNCHANGED <<pc, idx, it_used, nodes_to_remove, err, asmVars>>

\* the body of solve_out_tips is "pass": it returns None
CallSolveOutTips ==
    /\ pc = "idle" /\ Len(hist) < MaxCalls
    /\ op' = "solve_out_tips"
    /\ g_in' = graph
    /\ ret' = [isNone |-> TRUE, value |-> <<>>]
    /\ hist' = Append(hist, "solve_out_tips")
    /\ UNCHANGED <<graph, pc, idx, it_used, nodes_to_remove, cand, best_path, err, asmVars>>

\* path_average_weight on a simple path of the graph
CallPathAverageWeight ==
    /\ pc = "idle" /\ hist = <<>>
    /\ \E s, t \in NodeSet(graph) :
         \E i \in 1..Len(all_simple_paths(graph, s, t)) :
            LET path == all_simple_paths(graph, s, t)[i]
            IN ret' = [isNone |-> FALSE,
                       value |-> [path |-> path, avg |-> path_average_weight(graph, path)]]
    /\ op' = "path_average_weight"
    /\ g_in' = graph
    /\ pc' = "returned"
    /\ UNCHANGED <<graph, hist, idx, it_used, nodes_to_remove, cand, best_path, err, asmVars>>

\* select_best_path on the simple paths between two nodes, with their
\* lengths and average weights
CallSelectBestPath ==
    /\ pc = "idle" /\ hist = <<>>
    /\ \E s, t \in NodeSet(graph), delete_entry_node, delete_sink_node \in BOOLEAN :
         LET paths == all_simple_paths(graph, s, t)
             r == select_best_path(graph, paths,
                                   [i \in 1..Len(paths) |-> Len(paths[i])],
                                   [i \in 1..Len(paths) |-> path_average_weight(graph, paths[i])],
                                   delete_entry_node, delete_sink_node)
         IN /\ Len(paths) > 1
            /\ graph' = r.g
            /\ err' = r.err
            /\ pc' = IF r.err # "none" THEN "raised" ELSE "returned"
            /\ cand' = Candidates(graph, paths)
            /\ best_path' = paths[FirstMax(Keys(graph, paths))]
            /\ ret' = [isNone |-> FALSE, value |-> r.g]
    /\ op' = "select_best_path"
    /\ g_in' = graph
    /\ UNCHANGED <<hist, idx, it_used, nodes_to_remove, asmVars>>

NextSimp ==
    \/ CallSimplifyBubbles
    \/ BubbleVisit
    \/ BubbleRaise
    \/ BubbleReturn
    \/ CallSolveEntryTips
    \/ CallSolveOutTips
    \/ CallPathAverageWeight
    \/ CallSelectBestPath

SpecSimp == InitSimp /\ [][NextSimp]_vars

\* ------------------------------------------- properties of the pipeline
\* the start positions <<read, offset>> of the windows of length k
Windows(k) ==
    {o \in (1..Len(reads)) \X (1..MaxBases + 1) : o[2] + k - 1 <= Len(reads[o[1]])}
WindowAt(o, k) == SubSeq(reads[o[1]], o[2], o[2] + k - 1)
DistinctKmers(k) == {WindowAt(o, k) : o \in Windows(k)}
Occurrences(kmer, k) == Cardinality({o \in Windows(k) : WindowAt(o, k) = kmer})

NoRepeat(r, m) ==
    \A i, j \in 1..(Len(r) - m + 1) :
        i # j => SubSeq(r, i, i + m - 1) # SubSeq(r, j, j + m - 1)

\* C5: for k >= 2 the built graph has exactly one edge prefix->suffix per
\* distinct k-mer of the reads, weighted by the k-mer's number of
\* occurrences over all reads, the weights sum to the number of windows
\* (sum over reads of max(0, len - k + 1)), and there is no other edge.
C5_GraphIsKmerCounts ==
    (pc \in {"graph", "contigs"} /\ kmer_size >= 2) =>
        LET k == kmer_size IN
        /\ \A km \in DistinctKmers(k) :
              Cardinality({i \in 1..Len(graph.edge) :
                  /\ graph.edge[i][1] = SubSeq(km, 1, k - 1)
                  /\ graph.edge[i][2] = SubSeq(km, 2, k)}) = 1
        /\ \A km \in DistinctKmers(k) :
              \E i \in 1..Len(graph.edge) :
                  graph.edge[i] = <<SubSeq(km, 1, k - 1), SubSeq(km, 2, k),
                                   Occurrences(km, k)>>
        /\ \A i \in 1..Len(graph.edge) :
              \E km \in DistinctKmers(k) :
                  /\ graph.edge[i][1] = SubSeq(km, 1, k - 1)
                  /\ graph.edge[i][2] = SubSeq(km, 2, k)
        /\ SumSeq([i \in 1..Len(graph.edge) |-> graph.edge[i][3]])
              = SumSeq([r \in 1..Len(reads) |-> Max(0, Len(reads[r]) - k + 1)])

C5_Witness ==
    /\ pc = "graph" /\ kmer_size >= 2 /\ Len(reads) >= 2
    /\ \E r \in 1..Len(reads) : Len(reads[r]) < kmer_size
    /\ \E i \in 1..Len(graph.edge) : graph.edge[i][3] >= 2

\* C1 as stated: a single read of length >= k (k >= 2) in which no k-mer
\* occurs twice is returned as the only contig, [R, L].
C1_NoRepeatedKmer ==
    (/\ pc = "contigs" /\ Len(reads) = 1 /\ kmer_size >= 2
     /\ Len(reads[1]) >= kmer_size /\ NoRepeat(reads[1], kmer_size))
        => contigs = << <<reads[1], Len(reads[1])>> >>

\* C1 amended: a single read of length >= k (k >= 2) in which no
\* (k-1)-mer occurs twice is returned as the only contig, [R, L].
C1_NoRepeatedNode ==
    (/\ pc = "contigs" /\ Len(reads) = 1 /\ kmer_size >= 2
     /\ Len(reads[1]) >= kmer_size /\ NoRepeat(reads[1], kmer_size - 1))
        => contigs = << <<reads[1], Len(reads[1])>> >>

C1_Witness ==
    /\ pc = "contigs" /\ Len(reads) = 1 /\ kmer_size = 3
    /\ Len(reads[1]) > kmer_size /\ NoRepeat(reads[1], kmer_size - 1)
    /\ Len(contigs) = 1

\* C7: for k < 2 nothing is processed: no k-mer is counted and no node or
\* edge is built.
C7_NothingBuiltBelowTwo ==
    kmer_size < 2 => (kmer_dict = <<>> /\ graph = EmptyGraph)

\* ------------------------------------- properties of the simplification
\* the weights of the edges between consecutive nodes of a path
ConsecutiveWeights(g, path) ==
    [i \in 1..(Len(path) - 1) |-> EdgeWeight(g, path[i], path[i + 1])]
ConsecutiveMean(g, path) ==
    [sum |-> SumSeq(ConsecutiveWeights(g, path)), n |-> Len(path) - 1]

FirstCallOver(name) ==
    /\ op = name
    /\ \/ pc = "idle" /\ hist = <<name>>
       \/ pc = "raised" /\ hist = <<>>

\* C2: when the input graph has exactly two paths from A to C, of equal
\* length, sharing no interior node, one of strictly higher average
\* weight, then after simplify_bubbles the higher one is the only path
\* from A to C and the node count has dropped by the number of interior
\* nodes of the other.
C2_BubbleResolved ==
    FirstCallOver("simplify_bubbles") =>
        \A a, c \in NodeSet(g_in) :
            LET paths == all_simple_paths(g_in, a, c) IN
            (/\ a # c
             /\ Len(paths) = 2
             /\ Len(paths[1]) = Len(paths[2])
             /\ SeqSet(Interior(paths[1])) \cap SeqSet(Interior(paths[2])) = {}
             /\ ~AvgEq(ConsecutiveMean(g_in, paths[1]), ConsecutiveMean(g_in, paths[2])))
            => LET hi == IF AvgLess(ConsecutiveMean(g_in, paths[1]),
                                    ConsecutiveMean(g_in, paths[2])) THEN 2 ELSE 1
               IN /\ pc = "idle"
                  /\ a \in NodeSet(graph) /\ c \in NodeSet(graph)
                  /\ all_simple_paths(graph, a, c) = <<paths[hi]>>
                  /\ Len(graph.node) = Len(g_in.node) - Len(Interior(paths[3 - hi]))

\* C3: a source s of out-degree 1 whose successor x has another
\* predecessor q with a strictly heavier edge into x is gone after
\* solve_entry_tips(graph, get_starting_nodes(graph)), and q and x remain.
C3_EntryTipRemoved ==
    (pc = "idle" /\ hist = <<"solve_entry_tips">>) =>
        \A s \in SeqSet(get_starting_nodes(g_in)) :
            LET succs == successors(g_in, s) IN
            Len(succs) = 1 =>
                \A q \in SeqSet(predecessors(g_in, succs[1])) \ {s} :
                    EdgeWeight(g_in, q, succs[1]) > EdgeWeight(g_in, s, succs[1])
                    => /\ s \notin NodeSet(graph)
                       /\ q \in NodeSet(graph)
                       /\ succs[1] \in NodeSet(graph)

\* C4: a second call of simplify_bubbles, or of solve_entry_tips, right
\* after a first one leaves the graph as the first call returned it.
C4_SecondCallChangesNothing ==
    (/\ pc = "idle"
     /\ \/ hist = <<"simplify_bubbles", "simplify_bubbles">>
        \/ hist = <<"solve_entry_tips", "solve_entry_tips">>)
        => graph = g_in

\* C6: when two sinks t1 and t2 hang off the same predecessor d, the edge
\* to t1 strictly heavier, solve_out_tips returns a graph that keeps d and
\* t1 and has lost t2.
C6_OutTipRemoved ==
    (pc = "idle" /\ hist = <<"solve_out_tips">>) =>
        \A t1, t2 \in SeqSet(get_sink_nodes(g_in)) :
            (/\ t1 # t2
             /\ Len(predecessors(g_in, t1)) = 1
             /\ predecessors(g_in, t1) = predecessors(g_in, t2)
             /\ EdgeWeight(g_in, predecessors(g_in, t1)[1], t1)
                  > EdgeWeight(g_in, predecessors(g_in, t1)[1], t2))
            => /\ ~ret.isNone
               /\ t1 \in NodeSet(ret.value)
               /\ predecessors(g_in, t1)[1] \in NodeSet(ret.value)
               /\ t2 \notin NodeSet(ret.value)

\* C8: path_average_weight of a simple path is the mean of the weights of
\* the edges between its consecutive nodes.
C8_MeanOfConsecutiveEdges ==
    (op = "path_average_weight" /\ pc = "returned") =>
        AvgEq(ret.value.avg, ConsecutiveMean(g_in, ret.value.path))

\* C9: the path a selection keeps has the highest average weight of the
\* enumerated candidates and, among those of that weight, the most nodes.
C9_BestIsHeaviestThenLongest ==
    cand # <<>> =>
        \A i, b \in 1..Len(cand) :
            cand[b].path = best_path =>
                /\ ~AvgLess(cand[b].avg, cand[i].avg)
                /\ AvgEq(cand[b].avg, cand[i].avg)
                     => Len(cand[i].path) <= Len(best_path)

\* C10: while the loop of simplify_bubbles over the node set runs, and when
\* it is left by an exception, the graph still has every node and edge it
\* was called with.
C10_NoRemovalInsideLoop ==
    (op = "simplify_bubbles" /\ pc \in {"loop", "raised"}) => graph = g_in

====
